---- MODULE Spec2Model ----
(***************************************************************************)
(* A model of the Line algebra of geome (src/src/Line.ts) and of the       *)
(* scalar / vec2 / mat2d helpers of `linearly` that it calls.              *)
(*                                                                         *)
(* Numbers.  Angles are whole degrees, restricted to multiples of 45, so   *)
(* that every sine and cosine lies in the field Q(sqrt 2).  Every other    *)
(* number of the program is modelled exactly as an element of Q(sqrt 2):   *)
(* the triple <<a, b, d>> stands for (a + b*sqrt(2)) / d, kept in lowest   *)
(* terms with d > 0.  The triple <<0, 0, 0>> stands for the non-finite     *)
(* result of a division by zero (JavaScript's Infinity / NaN).             *)
(***************************************************************************)
EXTENDS Integers, Sequences, FiniteSets, TLC

\* ------------------------------------------------------------------ bounds
\* Points are drawn from the grid (-1 .. MaxCoord) squared.
MaxCoord == 1
\* Angles are 45*k for k in -MaxTurn .. 7+MaxTurn.
MaxTurn == 1
\* Lines whose |offset| exceeds MaxOffset are not constructed.
MaxOffset == 2

\* ------------------------------------------------- arithmetic in Q(sqrt 2)
IAbs(n) == IF n < 0 THEN -n ELSE n

RECURSIVE Gcd(_, _)
Gcd(m, n) == IF n = 0 THEN m ELSE Gcd(n, m % n)

\* (a + b*sqrt 2) / d in lowest terms, d > 0.
Norm(a, b, d) ==
    LET g == Gcd(Gcd(IAbs(a), IAbs(b)), IAbs(d))
        s == IF d < 0 THEN -1 ELSE 1
    IN  IF d = 0 THEN <<0, 0, 0>>
        ELSE <<s * (a \div g), s * (b \div g), s * (d \div g)>>

NaN == <<0, 0, 0>>
IsFinite(x) == x[3] # 0

\* The integer n as a number.
R(n) == <<n, 0, 1>>
\* The rational n / d.
Frac(n, d) == Norm(n, 0, d)

\* x + y over the least common denominator.
QAdd(x, y) ==
    LET g == Gcd(x[3], y[3])
    IN  IF g = 0 THEN <<0, 0, 0>>
        ELSE Norm(x[1] * (y[3] \div g) + y[1] * (x[3] \div g),
                  x[2] * (y[3] \div g) + y[2] * (x[3] \div g),
                  (x[3] \div g) * y[3])
QNeg(x) == <<-x[1], -x[2], x[3]>>
QSub(x, y) == QAdd(x, QNeg(y))
QMul(x, y) ==
    Norm(x[1] * y[1] + 2 * x[2] * y[2], x[1] * y[2] + x[2] * y[1], x[3] * y[3])
\* x / y; a division by zero gives the non-finite value.
QDiv(x, y) ==
    LET n == y[1] * y[1] - 2 * y[2] * y[2]
    IN  IF n = 0 THEN NaN
        ELSE QMul(x, Norm(y[3] * y[1], -(y[3] * y[2]), n))

\* The sign of A - B*sqrt(2) for naturals A, B, without squaring them:
\* for B < A < 2B, A - B*sqrt 2 has the sign of (A-B)*sqrt 2 - (2B-A).
RECURSIVE SignPos(_, _)
SignPos(A, B) ==
    IF B = 0 THEN (IF A > 0 THEN 1 ELSE 0)
    ELSE IF A <= B THEN -1
    ELSE IF A >= 2 * B THEN 1
    ELSE -SignPos(2 * B - A, A - B)

\* The sign of a + b*sqrt(2) for integers a, b.
Sign2(a, b) ==
    IF a >= 0 /\ b >= 0 THEN (IF a = 0 /\ b = 0 THEN 0 ELSE 1)
    ELSE IF a <= 0 /\ b <= 0 THEN -1
    ELSE IF a > 0 THEN SignPos(a, -b)
    ELSE -SignPos(-a, b)

QSign(x) == Sign2(x[1], x[2])
\* x <= y, cross-multiplying the denominators (both positive).
QLe(x, y) == Sign2(x[1] * y[3] - y[1] * x[3], x[2] * y[3] - y[2] * x[3]) <= 0
QLt(x, y) == Sign2(x[1] * y[3] - y[1] * x[3], x[2] * y[3] - y[2] * x[3]) < 0
QAbs(x) == IF QSign(x) < 0 THEN QNeg(x) ELSE x
QMax(x, y) == IF QLe(x, y) THEN y ELSE x
QMin(x, y) == IF QLe(x, y) THEN x ELSE y


\* ------------------------------------------------------ linearly: scalar
\* The tolerance of every tolerant comparison, 0.000001.
EPSILON == Frac(1, 1000000)

\* scalar.mod(a, b) = a - b * floor(a / b), on whole degrees.
mod(a, b) == a - b * (a \div b)

\* scalar.approx(a, b): |a - b| <= EPSILON * max(1, |a|, |b|).
approx(a, b) ==
    QLe(QAbs(QSub(a, b)), QMul(EPSILON, QMax(R(1), QMax(QAbs(a), QAbs(b)))))

HalfSqrt2 == <<0, 1, 2>>

\* cos of an angle in degrees.
cos(deg) ==
    CASE mod(deg, 360) = 0 -> R(1)
      [] mod(deg, 360) = 45 -> HalfSqrt2
      [] mod(deg, 360) = 90 -> R(0)
      [] mod(deg, 360) = 135 -> QNeg(HalfSqrt2)
      [] mod(deg, 360) = 180 -> R(-1)
      [] mod(deg, 360) = 225 -> QNeg(HalfSqrt2)
      [] mod(deg, 360) = 270 -> R(0)
      [] mod(deg, 360) = 315 -> HalfSqrt2

\* sin of an angle in degrees.
sin(deg) == cos(deg - 90)

\* -------------------------------------------------------- linearly: vec2
vec2_add(p, q) == <<QAdd(p[1], q[1]), QAdd(p[2], q[2])>>
vec2_sub(p, q) == <<QSub(p[1], q[1]), QSub(p[2], q[2])>>
vec2_scale(p, k) == <<QMul(p[1], k), QMul(p[2], k)>>
vec2_dot(p, q) == QAdd(QMul(p[1], q[1]), QMul(p[2], q[2]))
\* The squared distance of two points (vec2.dist is its square root).
vec2_sqrDist(p, q) == vec2_dot(vec2_sub(p, q), vec2_sub(p, q))

\* vec2.dir(deg, length, origin): origin + length * (cos deg, sin deg).
vec2_dir3(deg, length, origin) ==
    <<QAdd(QMul(cos(deg), length), origin[1]), QAdd(QMul(sin(deg), length), origin[2])>>
\* vec2.dir(deg): the unit vector at deg.
vec2_dir(deg) == vec2_dir3(deg, R(1), <<R(0), R(0)>>)

\* The vectors whose angle the model knows: those along the eight octants.
HasOctantAngle(v) ==
    \/ QSign(v[1]) = 0
    \/ QSign(v[2]) = 0
    \/ QAbs(v[1]) = QAbs(v[2])

\* vec2.angle(v) = atan2(v.y, v.x) in degrees, in (-180, 180]; atan2(0, 0) = 0.
vec2_angle(v) ==
    LET sx == QSign(v[1])
        sy == QSign(v[2])
    IN  CASE sy = 0 /\ sx >= 0 -> 0
          [] sy = 0 /\ sx < 0 -> 180
          [] sx = 0 /\ sy > 0 -> 90
          [] sx = 0 /\ sy < 0 -> -90
          [] sx > 0 /\ sy > 0 /\ v[1] = v[2] -> 45
          [] sx < 0 /\ sy > 0 /\ QNeg(v[1]) = v[2] -> 135
          [] sx < 0 /\ sy < 0 /\ v[1] = v[2] -> -135
          [] sx > 0 /\ sy < 0 /\ v[1] = QNeg(v[2]) -> -45

\* vec2.transformMat2d(p, m) for m = [a, b, c, d, tx, ty].
vec2_transformMat2d(p, m) ==
    <<QAdd(QAdd(QMul(m[1], p[1]), QMul(m[3], p[2])), m[5]),
      QAdd(QAdd(QMul(m[2], p[1]), QMul(m[4], p[2])), m[6])>>

\* ------------------------------------------------------------------ Line
Line(theta, offset) == [theta |-> theta, offset |-> offset]

xAxis == Line(90, R(0))
yAxis == Line(0, R(0))

\* Faulty variant: the angle is stored as given.
Line_of_noMod(theta, offset) == Line(theta, offset)

Line_of(theta, offset) == Line(mod(theta, 360), offset)

\* Faulty variant: the normal is rotated by -90 degrees.
Line_fromPoints_rotateBack(p1, p2) ==
    LET delta == vec2_sub(p2, p1)
        theta == mod(vec2_angle(delta) - 90, 360)
        normal == vec2_dir(theta)
        offset == vec2_dot(p1, normal)
    IN  Line(theta, offset)

Line_fromPoints(p1, p2) ==
    LET delta == vec2_sub(p2, p1)
        theta == mod(vec2_angle(delta) + 90, 360)
        normal == vec2_dir(theta)
        offset == vec2_dot(p1, normal)
    IN  Line(theta, offset)

\* Faulty variant: the direction angle is taken for the normal's angle.
Line_fromPointDirection_noRotate(p, deg) ==
    LET theta == mod(deg, 360)
        normal == vec2_dir(theta)
        offset == vec2_dot(p, normal)
    IN  Line(theta, offset)

Line_fromPointDirection(p, deg) ==
    LET theta == mod(deg + 90, 360)
        normal == vec2_dir(theta)
        offset == vec2_dot(p, normal)
    IN  Line(theta, offset)

\* Faulty variant: the point is moved away from the line.
Line_closest_add(l, p) ==
    LET normal == vec2_dir(l.theta)
        t == QSub(vec2_dot(p, normal), l.offset)
    IN  vec2_add(p, vec2_scale(normal, t))

Line_closest(l, p) ==
    LET normal == vec2_dir(l.theta)
        t == QSub(vec2_dot(p, normal), l.offset)
    IN  vec2_sub(p, vec2_scale(normal, t))

Line_distance(l, p) ==
    LET normal == vec2_dir(l.theta)
    IN  QAbs(QSub(vec2_dot(p, normal), l.offset))

\* The explicit no-result value.
null == <<>>

\* Faulty variant: no test of the determinant.
Line_intersection_noGuard(la, lb) ==
    LET normal1 == vec2_dir(la.theta)
        normal2 == vec2_dir(lb.theta)
        det == QSub(QMul(normal1[1], normal2[2]), QMul(normal2[1], normal1[2]))
        x == QDiv(QSub(QMul(la.offset, normal2[2]), QMul(lb.offset, normal1[2])), det)
        y == QDiv(QSub(QMul(normal1[1], lb.offset), QMul(normal2[1], la.offset)), det)
    IN  <<x, y>>

\* Faulty variant: the numerator of y has its terms exchanged.
Line_intersection_swapY(la, lb) ==
    LET normal1 == vec2_dir(la.theta)
        normal2 == vec2_dir(lb.theta)
        det == QSub(QMul(normal1[1], normal2[2]), QMul(normal2[1], normal1[2]))
        x == QDiv(QSub(QMul(la.offset, normal2[2]), QMul(lb.offset, normal1[2])), det)
        y == QDiv(QSub(QMul(normal2[1], la.offset), QMul(normal1[1], lb.offset)), det)
    IN  IF approx(det, R(0)) THEN null ELSE <<x, y>>

Line_intersection(la, lb) ==
    LET normal1 == vec2_dir(la.theta)
        normal2 == vec2_dir(lb.theta)
        a1 == normal1[1]
        b1 == normal1[2]
        c1 == la.offset
        a2 == normal2[1]
        b2 == normal2[2]
        c2 == lb.offset
        det == QSub(QMul(a1, b2), QMul(a2, b1))
        x == QDiv(QSub(QMul(c1, b2), QMul(c2, b1)), det)
        y == QDiv(QSub(QMul(a1, c2), QMul(a2, c1)), det)
    IN  IF approx(det, R(0)) THEN null ELSE <<x, y>>

Line_approx(la, lb) ==
    approx(R(la.theta), R(lb.theta)) /\ approx(la.offset, lb.offset)

\* Faulty variant: the opposite direction is not tried.
Line_same_directed(la, lb) == Line_approx(la, lb)

Line_same(la, lb) ==
    IF Line_approx(la, lb) THEN TRUE
    ELSE LET oppositeTheta == mod(la.theta + 180, 360)
             oppositeLine == Line(oppositeTheta, QNeg(la.offset))
         IN  Line_approx(oppositeLine, lb)

\* Faulty variant: the angles are compared without folding them mod 180.
Line_isParallel_directed(la, lb) == approx(R(la.theta), R(lb.theta))

Line_isParallel(la, lb) ==
    LET theta1 == mod(la.theta, 180)
        theta2 == mod(lb.theta, 180)
    IN  approx(R(theta1), R(theta2))

\* Faulty variant: the angles are compared without folding them mod 180.
Line_isPerpendicular_noFold(la, lb) ==
    approx(R(IAbs(la.theta - lb.theta)), R(90))

Line_isPerpendicular(la, lb) ==
    LET theta1 == mod(la.theta, 180)
        theta2 == mod(lb.theta, 180)
        angleDiff == IAbs(theta1 - theta2)
    IN  approx(R(angleDiff), R(90))

\* Faulty variant: the offset keeps its sign.
Line_invert_keepOffset(line) ==
    LET oppositeTheta == mod(line.theta + 180, 360)
    IN  Line(oppositeTheta, line.offset)

\* Faulty variant: the opposite angle is not normalized.
Line_invert_noWrap(line) == Line(line.theta + 180, QNeg(line.offset))

Line_invert(line) ==
    LET oppositeTheta == mod(line.theta + 180, 360)
    IN  Line(oppositeTheta, QNeg(line.offset))

\* Faulty variant: the translation is left out.
Line_reflectionMatrix_linear(line) ==
    LET n == vec2_dir(line.theta)
        a == n[1]
        b == n[2]
    IN  <<QSub(R(1), QMul(R(2), QMul(a, a))),
          QMul(R(-2), QMul(a, b)),
          QMul(R(-2), QMul(a, b)),
          QSub(R(1), QMul(R(2), QMul(b, b))),
          R(0),
          R(0)>>

Line_reflectionMatrix(line) ==
    LET n == vec2_dir(line.theta)
        a == n[1]
        b == n[2]
        c == line.offset
    IN  <<QSub(R(1), QMul(R(2), QMul(a, a))),
          QMul(R(-2), QMul(a, b)),
          QMul(R(-2), QMul(a, b)),
          QSub(R(1), QMul(R(2), QMul(b, b))),
          QMul(R(2), QMul(c, a)),
          QMul(R(2), QMul(c, b))>>

\* Faulty variant: the second point is taken along the normal.
Line_transformPoints_alongNormal(line, matrix) ==
    LET normal == vec2_dir(line.theta)
        p1 == vec2_scale(normal, line.offset)
        p2 == vec2_dir3(line.theta, R(1), p1)
    IN  <<vec2_transformMat2d(p1, matrix), vec2_transformMat2d(p2, matrix)>>

\* The two points of the line that Line.transform maps through the matrix.
Line_transformPoints(line, matrix) ==
    LET normal == vec2_dir(line.theta)
        p1 == vec2_scale(normal, line.offset)
        p2 == vec2_dir3(line.theta - 90, R(1), p1)
    IN  <<vec2_transformMat2d(p1, matrix), vec2_transformMat2d(p2, matrix)>>

\* Faulty variant: the line keeps its angle and is moved to the first point.
Line_transform_keepAngle(line, matrix) ==
    LET normal == vec2_dir(line.theta)
        p1 == vec2_scale(normal, line.offset)
    IN  Line_fromPointDirection(vec2_transformMat2d(p1, matrix), line.theta - 90)

Line_transform(line, matrix) ==
    LET tp == Line_transformPoints(line, matrix)
    IN  Line_fromPoints(tp[1], tp[2])

\* ----------------------------------------------------------- the inputs
Coords == -1 .. MaxCoord
Points == {<<R(x), R(y)>> : x \in Coords, y \in Coords}
\* Angles below 0 and from 360 up are among the inputs.
Degrees == {45 * k : k \in -MaxTurn .. 7 + MaxTurn}
Offsets == {R(k) : k \in -MaxOffset .. MaxOffset}
\* The pairs of distinct points whose direction is along an octant.
PointPairs ==
    {pq \in Points \X Points : pq[1] # pq[2] /\ HasOctantAngle(vec2_sub(pq[2], pq[1]))}

\* The second argument of the calls that take two lines.
Operands ==
    {Line_of(d, k) : d \in Degrees, k \in Offsets}
        \cup {Line_fromPoints(pq[1], pq[2]) : pq \in PointPairs}

\* mat2d values [a, b, c, d, tx, ty], all invertible: the identity,
\* scaling([-1, 1]), rotation(90), translation([1, 0]), scaling([2, 1]).
mat2d_identity == <<R(1), R(0), R(0), R(1), R(0), R(0)>>
mat2d_flipX == <<R(-1), R(0), R(0), R(1), R(0), R(0)>>
mat2d_rotate90 == <<R(0), R(1), R(-1), R(0), R(0), R(0)>>
mat2d_translateX == <<R(1), R(0), R(0), R(1), R(1), R(0)>>
mat2d_scaleX == <<R(2), R(0), R(0), R(1), R(0), R(0)>>
Matrices == {mat2d_identity, mat2d_flipX, mat2d_rotate90, mat2d_translateX, mat2d_scaleX}

\* ------------------------------------------------------------- the state
\* l1 is the line built so far; out records the last call: its name, its
\* arguments and its result.  A run builds a line by a sequence of producing
\* calls (constructors, invert, transform) and ends with one query of it.
VARIABLES l1, out
vars == <<l1, out>>

Call(op, args, val) == [op |-> op, args |-> args, val |-> val]

Producers == {"init", "of", "fromPoints", "fromPointDirection", "invert", "transform"}
Building == out.op \in Producers

Init ==
    /\ l1 = xAxis
    /\ out = Call("init", <<>>, xAxis)

Of ==
    \E d \in Degrees, k \in Offsets :
        /\ Building
        /\ l1' = Line_of(d, k)
        /\ out' = Call("of", <<d, k>>, l1')

FromPoints ==
    \E pq \in PointPairs :
        /\ Building
        /\ l1' = Line_fromPoints(pq[1], pq[2])
        /\ out' = Call("fromPoints", pq, l1')

FromPointDirection ==
    \E p \in Points, deg \in Degrees :
        /\ Building
        /\ l1' = Line_fromPointDirection(p, deg)
        /\ out' = Call("fromPointDirection", <<p, deg>>, l1')

Invert ==
    /\ Building
    /\ l1' = Line_invert(l1)
    /\ out' = Call("invert", <<l1>>, l1')

\* The matrix must keep the line's direction along an octant and its offset
\* within MaxOffset.
Transform ==
    \E m \in Matrices :
        LET tp == Line_transformPoints(l1, m)
        IN  /\ Building
            /\ HasOctantAngle(vec2_sub(tp[2], tp[1]))
            /\ QLe(QAbs(Line_transform(l1, m).offset), R(MaxOffset))
            /\ l1' = Line_transform(l1, m)
            /\ out' = Call("transform", <<l1, m>>, l1')

Closest ==
    \E p \in Points :
        /\ Building
        /\ out' = Call("closest", <<l1, p>>, Line_closest(l1, p))
        /\ UNCHANGED l1

Distance ==
    \E p \in Points :
        /\ Building
        /\ out' = Call("distance", <<l1, p>>, Line_distance(l1, p))
        /\ UNCHANGED l1

Intersection ==
    \E l2 \in Operands :
        /\ Building
        /\ out' = Call("intersection", <<l1, l2>>, Line_intersection(l1, l2))
        /\ UNCHANGED l1

Approx ==
    \E l2 \in Operands :
        /\ Building
        /\ out' = Call("approx", <<l1, l2>>, Line_approx(l1, l2))
        /\ UNCHANGED l1

Same ==
    \E l2 \in Operands :
        /\ Building
        /\ out' = Call("same", <<l1, l2>>, Line_same(l1, l2))
        /\ UNCHANGED l1

IsParallel ==
    \E l2 \in Operands :
        /\ Building
        /\ out' = Call("isParallel", <<l1, l2>>, Line_isParallel(l1, l2))
        /\ UNCHANGED l1

IsPerpendicular ==
    \E l2 \in Operands :
        /\ Building
        /\ out' = Call("isPerpendicular", <<l1, l2>>, Line_isPerpendicular(l1, l2))
        /\ UNCHANGED l1

ReflectionMatrix ==
    /\ Building
    /\ out' = Call("reflectionMatrix", <<l1>>, Line_reflectionMatrix(l1))
    /\ UNCHANGED l1

Next ==
    \/ Of
    \/ FromPoints
    \/ FromPointDirection
    \/ Invert
    \/ Transform
    \/ Closest
    \/ Distance
    \/ Intersection
    \/ Approx
    \/ Same
    \/ IsParallel
    \/ IsPerpendicular
    \/ ReflectionMatrix

Spec == Init /\ [][Next]_vars

\* --------------------------------------------------------------- Segment
RECURSIVE ISqrtFrom(_, _)
ISqrtFrom(n, x) ==
    LET y == (x + n \div x) \div 2
    IN  IF y >= x THEN x ELSE ISqrtFrom(n, y)

\* The integer part of the square root of a natural number.
ISqrt(n) == IF n = 0 THEN 0 ELSE ISqrtFrom(n, n)

\* The square root of a number, for the rationals n/d >= 0 whose root lies in
\* Q(sqrt 2): n*d is a square r^2 (root r/d) or twice one (root r*sqrt(2)/d).
HasSqrt(x) ==
    /\ x[2] = 0
    /\ x[1] >= 0
    /\ LET n == x[1] * x[3]
       IN  \/ ISqrt(n) * ISqrt(n) = n
           \/ 2 * ISqrt(n \div 2) * ISqrt(n \div 2) = n

QSqrt(x) ==
    LET n == x[1] * x[3]
    IN  IF ISqrt(n) * ISqrt(n) = n
        THEN Norm(ISqrt(n), 0, x[3])
        ELSE Norm(0, ISqrt(n \div 2), x[3])

\* vec2.dist(p, q), the Euclidean distance.
vec2_dist(p, q) == QSqrt(vec2_sqrDist(p, q))

\* vec2.dist(p, a) <= vec2.dist(p, b), decided on the squares of the two
\* distances (the square root is monotone).
vec2_distLe(p, a, b) == QLe(vec2_sqrDist(p, a), vec2_sqrDist(p, b))

Segment_midpoint(segment) == vec2_add(segment[1], segment[2])

Segment_closestPoint(segment, point) ==
    LET a == segment[1]
        b == segment[2]
        c == point
        len == vec2_dist(a, b)
        t == QDiv(vec2_dot(vec2_sub(c, a), vec2_sub(b, a)), len)
    IN  IF approx(len, R(0)) THEN a
        ELSE IF QLt(t, R(0)) THEN a
        ELSE IF QLt(len, t) THEN b
        ELSE vec2_add(a, vec2_scale(vec2_sub(b, a), t))

\* The square of Segment.distance(segment, point).
Segment_sqrDistance(segment, point) ==
    vec2_sqrDist(point, Segment_closestPoint(segment, point))

Segment_distance(segment, point) == QSqrt(Segment_sqrDistance(segment, point))

\* Faulty variant: each first endpoint is compared with the second endpoint
\* of the other segment.
Segment_intersection_otherEnd(segment1, segment2) ==
    LET x1 == segment1[1]
        y1 == segment1[2]
        x2 == segment2[1]
        y2 == segment2[2]
        ab == Line_fromPoints(x1, y1)
        cd == Line_fromPoints(x2, y2)
        intersection == Line_intersection(ab, cd)
    IN  IF intersection = null THEN null
        ELSE IF vec2_distLe(intersection, x1, y2) /\ vec2_distLe(intersection, x2, y1)
             THEN intersection
             ELSE null

Segment_intersection(segment1, segment2) ==
    LET x1 == segment1[1]
        y1 == segment1[2]
        x2 == segment2[1]
        y2 == segment2[2]
        ab == Line_fromPoints(x1, y1)
        cd == Line_fromPoints(x2, y2)
        intersection == Line_intersection(ab, cd)
    IN  IF intersection = null THEN null
        ELSE IF vec2_distLe(intersection, x1, y1) /\ vec2_distLe(intersection, x2, y2)
             THEN intersection
             ELSE null

\* The segments of the model: pairs of grid points along an octant, and for
\* the calls that allow it the degenerate segments <<p, p>>.
Segments == PointPairs
SegmentsOrPoints == PointPairs \cup {<<p, p>> : p \in Points}

\* A run of the Segment functions makes one call and records it in out.
SegInit ==
    /\ l1 = xAxis
    /\ out = Call("init", <<>>, null)

SegMidpoint ==
    \E sg \in SegmentsOrPoints :
        /\ out.op = "init"
        /\ out' = Call("Segment.midpoint", <<sg>>, Segment_midpoint(sg))
        /\ UNCHANGED l1

SegClosestPoint ==
    \E sg \in SegmentsOrPoints, c \in Points :
        /\ out.op = "init"
        /\ out' = Call("Segment.closestPoint", <<sg, c>>, Segment_closestPoint(sg, c))
        /\ UNCHANGED l1

\* Only the distances whose square root lies in Q(sqrt 2) are computed.
SegDistance ==
    \E sg \in SegmentsOrPoints, c \in Points :
        /\ out.op = "init"
        /\ HasSqrt(Segment_sqrDistance(sg, c))
        /\ out' = Call("Segment.distance", <<sg, c>>, Segment_distance(sg, c))
        /\ UNCHANGED l1

SegIntersection ==
    \E s1 \in Segments, s2 \in Segments :
        /\ out.op = "init"
        /\ out' = Call("Segment.intersection", <<s1, s2>>, Segment_intersection(s1, s2))
        /\ UNCHANGED l1

SegNext ==
    \/ SegMidpoint
    \/ SegClosestPoint
    \/ SegDistance
    \/ SegIntersection

SpecSegment == SegInit /\ [][SegNext]_vars

\* ----------------------------------------------------------------- Range
\* A range is the pair <<min, max>>.
Range_of(a, b) == <<QMin(a, b), QMax(a, b)>>

Range_offset(range, offset) == <<QAdd(range[1], offset), QAdd(range[2], offset)>>

Range_scale(range, scale, origin) ==
    <<QAdd(QMul(QSub(range[1], origin), scale), origin),
      QAdd(QMul(QSub(range[2], origin), scale), origin)>>

Scalars == {R(k) : k \in -MaxOffset .. MaxOffset}
RangeOffsets == {R(-1), R(1)}
RangeScales == {R(-1), R(2)}
RangeOrigins == {R(0), R(1)}

\* The ranges the model follows have both ends within MaxOffset of zero.
RangeInBounds(range) ==
    /\ QLe(QAbs(range[1]), R(MaxOffset))
    /\ QLe(QAbs(range[2]), R(MaxOffset))

RangeOps == {"Range.of", "Range.offset", "Range.scale"}

\* A run builds a range with Range.of and then applies Range.offset and
\* Range.scale to it; out.val is the current range, out.args the other
\* arguments of the last call.
RangeInit ==
    /\ l1 = xAxis
    /\ out = Call("init", <<>>, null)

RangeOf ==
    \E a \in Scalars, b \in Scalars :
        /\ out.op = "init"
        /\ out' = Call("Range.of", <<a, b>>, Range_of(a, b))
        /\ UNCHANGED l1

RangeOffset ==
    \E offset \in RangeOffsets :
        /\ out.op \in RangeOps
        /\ RangeInBounds(Range_offset(out.val, offset))
        /\ out' = Call("Range.offset", <<offset>>, Range_offset(out.val, offset))
        /\ UNCHANGED l1

RangeScale ==
    \E scale \in RangeScales, origin \in RangeOrigins :
        /\ out.op \in RangeOps
        /\ RangeInBounds(Range_scale(out.val, scale, origin))
        /\ out' = Call("Range.scale", <<scale, origin>>, Range_scale(out.val, scale, origin))
        /\ UNCHANGED l1

RangeNext ==
    \/ RangeOf
    \/ RangeOffset
    \/ RangeScale

SpecRange == RangeInit /\ [][RangeNext]_vars

\* ------------------------------------------------------------------ Rect
vec2_mul(a, b) == <<QMul(a[1], b[1]), QMul(a[2], b[2])>>

\* vec2.lerp(a, b, t) = a + t * (b - a), by component.
vec2_lerp(a, b, t) == vec2_add(a, vec2_scale(vec2_sub(b, a), t))

\* typeof x === 'number': a number is a triple, a vec2 a pair.
IsNumber(x) == Len(x) = 3

\* A rect is the pair <<min, max>>. Rect.fromPoints of a non-empty sequence
\* of points: the loop over the points, the first of which replaces the
\* initial infinities.
RECURSIVE Rect_fromPoints(_)
Rect_fromPoints(points) ==
    IF Len(points) = 1
    THEN <<points[1], points[1]>>
    ELSE LET r == Rect_fromPoints(SubSeq(points, 1, Len(points) - 1))
             p == points[Len(points)]
         IN  <<<<QMin(r[1][1], p[1]), QMin(r[1][2], p[2])>>,
               <<QMax(r[2][1], p[1]), QMax(r[2][2], p[2])>>>>

Rect_bySize(min, size) == Rect_fromPoints(<<min, vec2_add(min, size)>>)

Rect_fromCenter(center, size) ==
    LET halfSize == vec2_scale(size, Frac(1, 2))
    IN  Rect_fromPoints(<<vec2_sub(center, halfSize), vec2_scale(size, R(2))>>)

Rect_size(bbox) == vec2_sub(bbox[2], bbox[1])

Rect_center(bbox) == vec2_lerp(bbox[1], bbox[2], Frac(1, 2))

Rect_scale(bbox, scale) ==
    LET sc == IF IsNumber(scale) THEN <<scale, scale>> ELSE scale
    IN  <<vec2_mul(bbox[1], sc), vec2_mul(bbox[2], sc)>>

Rect_translate(bbox, offset) == <<vec2_add(bbox[1], offset), vec2_add(bbox[2], offset)>>

Rect_offset(rect, offset) ==
    LET o == IF IsNumber(offset) THEN <<offset, offset>> ELSE offset
    IN  <<vec2_sub(rect[1], o), vec2_add(rect[2], o)>>

\* Rect.unite of a non-empty sequence of rects.
RECURSIVE Rect_unite(_)
Rect_unite(rects) ==
    IF Len(rects) = 1
    THEN rects[1]
    ELSE LET r == Rect_unite(SubSeq(rects, 1, Len(rects) - 1))
             b == rects[Len(rects)]
         IN  <<<<QMin(r[1][1], b[1][1]), QMin(r[1][2], b[1][2])>>,
               <<QMax(r[2][1], b[2][1]), QMax(r[2][2], b[2][2])>>>>

\* Rect.intersect of a non-empty sequence of rects.
RECURSIVE Rect_intersect(_)
Rect_intersect(rects) ==
    IF Len(rects) = 1
    THEN rects[1]
    ELSE LET r == Rect_intersect(SubSeq(rects, 1, Len(rects) - 1))
             b == rects[Len(rects)]
         IN  <<<<QMax(r[1][1], b[1][1]), QMax(r[1][2], b[1][2])>>,
               <<QMin(r[2][1], b[2][1]), QMin(r[2][2], b[2][2])>>>>

Rect_lerp(a, b, t) == <<vec2_lerp(a[1], b[1], t), vec2_lerp(a[2], b[2], t)>>

\* Arguments of the calls: points and sizes on the grid (sizes of either
\* sign), a number or a vec2 as scale and as offset, a second rect.
RectScales == {R(-1), R(2), <<R(1), R(-1)>>}
RectTranslations == {<<R(1), R(0)>>, <<R(0), R(-1)>>}
RectOffsets == {R(-1), R(1), <<R(1), R(0)>>}
RectOperands == {<<<<R(0), R(0)>>, <<R(1), R(1)>>>>, <<<<R(-1), R(-1)>>, <<R(0), R(0)>>>>}
RectLerps == {Frac(1, 2), R(2)}

\* The rects the model follows have corners on the half-integer grid within
\* MaxOffset of the origin.
CoordInBounds(x) == x[2] = 0 /\ x[3] \in {1, 2} /\ QLe(QAbs(x), R(MaxOffset))

RectInBounds(rect) ==
    \A i \in 1 .. 2, j \in 1 .. 2 : CoordInBounds(rect[i][j])

RectOps ==
    {"Rect.fromPoints", "Rect.bySize", "Rect.fromCenter", "Rect.scale", "Rect.translate",
     "Rect.offset", "Rect.unite", "Rect.intersect", "Rect.lerp"}

\* A run builds a rect with one constructor and then applies the other
\* functions to it; out.val is the current rect, out.args the other arguments
\* of the last call.
RectInit ==
    /\ l1 = xAxis
    /\ out = Call("init", <<>>, null)

RectFromPoints ==
    \E p \in Points, q \in Points :
        /\ out.op = "init"
        /\ out' = Call("Rect.fromPoints", <<p, q>>, Rect_fromPoints(<<p, q>>))
        /\ UNCHANGED l1

RectBySize ==
    \E min \in Points, size \in Points :
        /\ out.op = "init"
        /\ out' = Call("Rect.bySize", <<min, size>>, Rect_bySize(min, size))
        /\ UNCHANGED l1

RectFromCenter ==
    \E center \in Points, size \in Points :
        /\ out.op = "init"
        /\ out' = Call("Rect.fromCenter", <<center, size>>, Rect_fromCenter(center, size))
        /\ UNCHANGED l1

RectScale ==
    \E scale \in RectScales :
        /\ out.op \in RectOps
        /\ RectInBounds(Rect_scale(out.val, scale))
        /\ out' = Call("Rect.scale", <<scale>>, Rect_scale(out.val, scale))
        /\ UNCHANGED l1

RectTranslate ==
    \E offset \in RectTranslations :
        /\ out.op \in RectOps
        /\ RectInBounds(Rect_translate(out.val, offset))
        /\ out' = Call("Rect.translate", <<offset>>, Rect_translate(out.val, offset))
        /\ UNCHANGED l1

RectOffset ==
    \E offset \in RectOffsets :
        /\ out.op \in RectOps
        /\ RectInBounds(Rect_offset(out.val, offset))
        /\ out' = Call("Rect.offset", <<offset>>, Rect_offset(out.val, offset))
        /\ UNCHANGED l1

RectUnite ==
    \E b \in RectOperands :
        /\ out.op \in RectOps
        /\ out' = Call("Rect.unite", <<b>>, Rect_unite(<<out.val, b>>))
        /\ UNCHANGED l1

RectIntersect ==
    \E b \in RectOperands :
        /\ out.op \in RectOps
        /\ out' = Call("Rect.intersect", <<b>>, Rect_intersect(<<out.val, b>>))
        /\ UNCHANGED l1

RectLerp ==
    \E b \in RectOperands, t \in RectLerps :
        /\ out.op \in RectOps
        /\ RectInBounds(Rect_lerp(out.val, b, t))
        /\ out' = Call("Rect.lerp", <<b, t>>, Rect_lerp(out.val, b, t))
        /\ UNCHANGED l1

RectNext ==
    \/ RectFromPoints
    \/ RectBySize
    \/ RectFromCenter
    \/ RectScale
    \/ RectTranslate
    \/ RectOffset
    \/ RectUnite
    \/ RectIntersect
    \/ RectLerp

SpecRect == RectInit /\ [][RectNext]_vars

\* ------------------------------------------------------------- utilities
\* Faulty variant: 180 itself is wrapped to -180.
normalizeAngle_inclusive(deg) ==
    LET normalized == mod(deg, 360)
    IN  IF normalized >= 180 THEN normalized - 360 ELSE normalized

normalizeAngle(deg) ==
    LET normalized == mod(deg, 360)
    IN  IF normalized > 180 THEN normalized - 360 ELSE normalized

\* Whole degrees up to MaxTurn + 1 turns either way.
WholeDegrees == -360 * (MaxTurn + 1) .. 360 * (MaxTurn + 1)

\* A run normalizes an angle and may normalize the result again.
AngleInit ==
    /\ l1 = xAxis
    /\ out = Call("init", <<>>, null)

NormalizeAngle ==
    \E deg \in WholeDegrees :
        /\ out.op = "init"
        /\ out' = Call("normalizeAngle", <<deg>>, normalizeAngle(deg))
        /\ UNCHANGED l1

NormalizeAgain ==
    /\ out.op = "normalizeAngle"
    /\ out' = Call("normalizeAngle", <<out.val>>, normalizeAngle(out.val))
    /\ UNCHANGED l1

AngleNext ==
    \/ NormalizeAngle
    \/ NormalizeAgain

SpecAngle == AngleInit /\ [][AngleNext]_vars

\* ---------------------------------------------------------------- Circle
Circle(center, radius) == [center |-> center, radius |-> radius]

vec2_sqrLen(v) == vec2_dot(v, v)

\* Faulty variant: d is the plain sum, without the factor 2.
Circle_circumcenter_plainSum(a, b, c) ==
    LET d == QAdd(QAdd(QMul(a[1], QSub(b[2], c[2])),
                       QMul(b[1], QSub(c[2], a[2]))),
                  QMul(c[1], QSub(a[2], b[2])))
        A2 == vec2_sqrLen(a)
        B2 == vec2_sqrLen(b)
        C2 == vec2_sqrLen(c)
    IN  IF approx(d, R(0)) THEN null
        ELSE <<QDiv(QAdd(QAdd(QMul(A2, QSub(b[2], c[2])),
                              QMul(B2, QSub(c[2], a[2]))),
                         QMul(C2, QSub(a[2], b[2]))), d),
               QDiv(QAdd(QAdd(QMul(A2, QSub(c[1], b[1])),
                              QMul(B2, QSub(a[1], c[1]))),
                         QMul(C2, QSub(b[1], a[1]))), d)>>

\* The centre computed by Circle.circumcircle, null where it returns null.
Circle_circumcenter(a, b, c) ==
    LET d == QMul(R(2), QAdd(QAdd(QMul(a[1], QSub(b[2], c[2])),
                                  QMul(b[1], QSub(c[2], a[2]))),
                             QMul(c[1], QSub(a[2], b[2]))))
        A2 == vec2_sqrLen(a)
        B2 == vec2_sqrLen(b)
        C2 == vec2_sqrLen(c)
    IN  IF approx(d, R(0)) THEN null
        ELSE <<QDiv(QAdd(QAdd(QMul(A2, QSub(b[2], c[2])),
                              QMul(B2, QSub(c[2], a[2]))),
                         QMul(C2, QSub(a[2], b[2]))), d),
               QDiv(QAdd(QAdd(QMul(A2, QSub(c[1], b[1])),
                              QMul(B2, QSub(a[1], c[1]))),
                         QMul(C2, QSub(b[1], a[1]))), d)>>

Circle_circumcircle(a, b, c) ==
    LET center == Circle_circumcenter(a, b, c)
    IN  IF center = null THEN null
        ELSE Circle(center, vec2_dist(center, a))

\* Triangles: any three grid points, and any three of the corners of a right
\* triangle with legs of 1/1100, whose area is of the size of EPSILON.
Tiny == Frac(1, 1100)
TinyPoints == {<<R(0), R(0)>>, <<Tiny, R(0)>>, <<R(0), Tiny>>}
Triangles == (Points \X Points \X Points) \cup (TinyPoints \X TinyPoints \X TinyPoints)

\* The triangles whose circumcircle the model can hold: the radius, a square
\* root, lies in Q(sqrt 2).
HasRadius(a, b, c) ==
    IF Circle_circumcenter(a, b, c) = null THEN TRUE
    ELSE HasSqrt(vec2_sqrDist(Circle_circumcenter(a, b, c), a))

\* A run makes one call of Circle.circumcircle.
CircleInit ==
    /\ l1 = xAxis
    /\ out = Call("init", <<>>, null)

Circumcircle ==
    \E t \in Triangles :
        /\ out.op = "init"
        /\ HasRadius(t[1], t[2], t[3])
        /\ out' = Call("Circle.circumcircle", t, Circle_circumcircle(t[1], t[2], t[3]))
        /\ UNCHANGED l1

CircleNext == Circumcircle

SpecCircle == CircleInit /\ [][CircleNext]_vars

\* ----------------------------------------------- lines at nearby angles
\* The tolerant comparisons of Line.isParallel and Line.intersection differ
\* only for angles a fraction of a degree apart. Here an angle is a whole
\* number of ticks of 1/TicksPerDegree degree, and the lines are those at a
\* few ticks from a multiple of 90 degrees.
TicksPerDegree == 100000
\* A second line lies at most MaxTicks ticks from a multiple of 90 degrees.
MaxTicks == 20

\* scalar.approx(a, b) for two angles given in ticks:
\* |a - b| <= EPSILON * max(1 degree, |a|, |b|), the left side being whole.
approx_ticks(a, b) ==
    LET m == IF IAbs(a) >= IAbs(b) THEN IAbs(a) ELSE IAbs(b)
        mx == IF m >= TicksPerDegree THEN m ELSE TicksPerDegree
    IN  IAbs(a - b) <= mx \div EPSILON[3]

\* The sine of one tick, pi / (180 * TicksPerDegree), to eight digits.
SinOneTick == Frac(1, 5729578)

\* cos of an angle of t ticks that lies r ticks from the k-th multiple of 90
\* degrees: cos r is taken as 1 and sin r as r * SinOneTick, which is exact
\* to 1e-13 for |r| <= MaxTicks + 1.
cos_ticks(t) ==
    LET k == (t + 45 * TicksPerDegree) \div (90 * TicksPerDegree)
        r == t - k * 90 * TicksPerDegree
    IN  CASE k % 4 = 0 -> R(1)
          [] k % 4 = 1 -> QNeg(QMul(R(r), SinOneTick))
          [] k % 4 = 2 -> R(-1)
          [] k % 4 = 3 -> QMul(R(r), SinOneTick)

sin_ticks(t) == cos_ticks(t - 90 * TicksPerDegree)

\* vec2.dir(deg) for an angle in ticks.
vec2_dir_ticks(t) == <<cos_ticks(t), sin_ticks(t)>>

\* Line.intersection for lines whose theta is in ticks.
Line_intersection_ticks(la, lb) ==
    LET normal1 == vec2_dir_ticks(la.theta)
        normal2 == vec2_dir_ticks(lb.theta)
        a1 == normal1[1]
        b1 == normal1[2]
        c1 == la.offset
        a2 == normal2[1]
        b2 == normal2[2]
        c2 == lb.offset
        det == QSub(QMul(a1, b2), QMul(a2, b1))
        x == QDiv(QSub(QMul(c1, b2), QMul(c2, b1)), det)
        y == QDiv(QSub(QMul(a1, c2), QMul(a2, c1)), det)
    IN  IF approx(det, R(0)) THEN null ELSE <<x, y>>

\* Line.isParallel for lines whose theta is in ticks.
Line_isParallel_ticks(la, lb) ==
    LET theta1 == mod(la.theta, 180 * TicksPerDegree)
        theta2 == mod(lb.theta, 180 * TicksPerDegree)
    IN  approx_ticks(theta1, theta2)

\* First lines: at a multiple of 90 degrees. Second lines: within MaxTicks
\* of one. Every theta is normalized to [0, 360 degrees).
RightAngles == {90 * TicksPerDegree * k : k \in 0 .. 3}
NearbyAngles ==
    {mod(a + r, 360 * TicksPerDegree) : a \in RightAngles, r \in -MaxTicks .. MaxTicks}
FirstLines == {Line(t, o) : t \in RightAngles, o \in {R(0), R(1)}}
SecondLines == {Line(t, o) : t \in NearbyAngles, o \in {R(0), R(1)}}

\* A run makes one call on a pair of lines.
TicksInit ==
    /\ l1 = xAxis
    /\ out = Call("init", <<>>, null)

IntersectionNearby ==
    \E la \in FirstLines, lb \in SecondLines :
        /\ out.op = "init"
        /\ out' = Call("intersection", <<la, lb>>, Line_intersection_ticks(la, lb))
        /\ UNCHANGED l1

IsParallelNearby ==
    \E la \in FirstLines, lb \in SecondLines :
        /\ out.op = "init"
        /\ out' = Call("isParallel", <<la, lb>>, Line_isParallel_ticks(la, lb))
        /\ UNCHANGED l1

TicksNext ==
    \/ IntersectionNearby
    \/ IsParallelNearby

SpecTicks == TicksInit /\ [][TicksNext]_vars

\* ------------------------------------------------- Rect: set operations
Rect_contains(source, target) ==
    /\ QLe(source[1][1], target[1][1])
    /\ QLe(source[1][2], target[1][2])
    /\ QLe(target[2][1], source[2][1])
    /\ QLe(target[2][2], source[2][2])

Rect_containsPoint(bbox, point) ==
    /\ QLe(bbox[1][1], point[1])
    /\ QLe(point[1], bbox[2][1])
    /\ QLe(bbox[1][2], point[2])
    /\ QLe(point[2], bbox[2][2])

\* Faulty variant: rects that only touch do not intersect.
Rect_intersects_strict(a, b) ==
    /\ QLt(a[1][1], b[2][1])
    /\ QLt(b[1][1], a[2][1])
    /\ QLt(a[1][2], b[2][2])
    /\ QLt(b[1][2], a[2][2])

Rect_intersects(a, b) ==
    /\ QLe(a[1][1], b[2][1])
    /\ QLe(b[1][1], a[2][1])
    /\ QLe(a[1][2], b[2][2])
    /\ QLe(b[1][2], a[2][2])

\* The valid rects with corners on the grid.
ValidRects == {Rect_fromPoints(<<p, q>>) : p \in Points, q \in Points}

\* A run makes one call on valid rects.
PairInit ==
    /\ l1 = xAxis
    /\ out = Call("init", <<>>, null)

PairContains ==
    \E a \in ValidRects, b \in ValidRects :
        /\ out.op = "init"
        /\ out' = Call("Rect.contains", <<a, b>>, Rect_contains(a, b))
        /\ UNCHANGED l1

PairContainsPoint ==
    \E a \in ValidRects, point \in Points :
        /\ out.op = "init"
        /\ out' = Call("Rect.containsPoint", <<a, point>>, Rect_containsPoint(a, point))
        /\ UNCHANGED l1

PairIntersects ==
    \E a \in ValidRects, b \in ValidRects :
        /\ out.op = "init"
        /\ out' = Call("Rect.intersects", <<a, b>>, Rect_intersects(a, b))
        /\ UNCHANGED l1

PairUnite ==
    \E a \in ValidRects, b \in ValidRects :
        /\ out.op = "init"
        /\ out' = Call("Rect.unite", <<a, b>>, Rect_unite(<<a, b>>))
        /\ UNCHANGED l1

PairIntersect ==
    \E a \in ValidRects, b \in ValidRects :
        /\ out.op = "init"
        /\ out' = Call("Rect.intersect", <<a, b>>, Rect_intersect(<<a, b>>))
        /\ UNCHANGED l1

PairNext ==
    \/ PairContains
    \/ PairContainsPoint
    \/ PairIntersects
    \/ PairUnite
    \/ PairIntersect

SpecRectPairs == PairInit /\ [][PairNext]_vars

\* ------------------------------------------------------------ properties
Pt(x, y) == <<R(x), R(y)>>
\* The cross product of two vectors.
Cross(v, w) == QSub(QMul(v[1], w[2]), QMul(v[2], w[1]))
\* p lies on l: dot(p, normal) = offset.
OnLine(l, p) == vec2_dot(p, vec2_dir(l.theta)) = l.offset

\* C1: every line a producing call returns has theta in [0, 360); Line.of
\* gives the same theta for d and d + 360 and stores the offset unchanged.
C1_ThetaNormalized ==
    /\ 0 <= l1.theta /\ l1.theta < 360
    /\ out.op \in Producers => out.val = l1
    /\ out.op = "of" =>
        /\ l1.theta = Line_of(out.args[1] + 360, out.args[2]).theta
        /\ (l1.theta - out.args[1]) % 360 = 0
        /\ l1.offset = out.args[2]

\* Line.of was given a negative angle and stored it a turn higher.
C1_Witness ==
    /\ out.op = "of"
    /\ out.args[1] < 0
    /\ l1.theta = out.args[1] + 360

\* C2: fromPoints(p1, p2) passes through p1 and p2, its normal is the
\* direction p2 - p1 turned by +90 degrees, theta is normalized, and the
\* offset is dot(p1, normal); fromPoints([0,0], [1,1]) = {135, 0}.
C2_FromPoints ==
    out.op = "fromPoints" =>
        LET p1 == out.args[1]
            p2 == out.args[2]
            delta == vec2_sub(p2, p1)
            normal == vec2_dir(l1.theta)
        IN  /\ Line_distance(l1, p1) = R(0)
            /\ Line_distance(l1, p2) = R(0)
            /\ l1.theta = (vec2_angle(delta) + 90) % 360
            /\ vec2_dot(delta, normal) = R(0)
            /\ QSign(Cross(delta, normal)) > 0
            /\ l1.offset = vec2_dot(p1, normal)
            /\ (p1 = Pt(0, 0) /\ p2 = Pt(1, 1)) => l1 = Line(135, R(0))

C2_Witness ==
    /\ out.op = "fromPoints"
    /\ out.args = <<Pt(0, 0), Pt(1, 1)>>
    /\ l1 = Line(135, R(0))

\* C3: fromPointDirection(p, deg) is the line fromPoints(p, p + dir(deg)).
C3_FromPointDirection ==
    out.op = "fromPointDirection" =>
        LET p == out.args[1]
            deg == out.args[2]
        IN  l1 = Line_fromPoints(p, vec2_add(p, vec2_dir(deg)))

\* A negative direction angle through a point off the origin.
C3_Witness ==
    /\ out.op = "fromPointDirection"
    /\ out.args[1] = Pt(1, 0)
    /\ out.args[2] = -45
    /\ l1 = Line(45, <<0, 1, 2>>)

\* la and lb are the same set of points: two points of la lie on lb.
SameLocus(la, lb) ==
    LET w1 == vec2_scale(vec2_dir(la.theta), la.offset)
        w2 == vec2_dir3(la.theta - 90, R(1), w1)
    IN  OnLine(lb, w1) /\ OnLine(lb, w2)

\* The pairs <<fromPoints(p, q), fromPoints(q, p)>>.
ReversedPairs ==
    {<<Line_fromPoints(pq[1], pq[2]), Line_fromPoints(pq[2], pq[1])>> : pq \in PointPairs}
Reversed(la, lb) == <<la, lb>> \in ReversedPairs

\* C4: fromPoints(p1, p2) and fromPoints(p2, p1) are same but not approx;
\* same is false of two lines that are different sets of points.
C4_DirectionSensitive ==
    /\ (out.op = "same" /\ Reversed(out.args[1], out.args[2])) => out.val = TRUE
    /\ (out.op = "approx" /\ Reversed(out.args[1], out.args[2])) => out.val = FALSE
    /\ (out.op = "same" /\ ~SameLocus(out.args[1], out.args[2])) => out.val = FALSE

\* same was asked of a line off the origin and its reverse.
C4_Witness ==
    /\ out.op = "same"
    /\ out.args[1] = Line_fromPoints(Pt(1, 0), Pt(0, 1))
    /\ out.args[2] = Line_fromPoints(Pt(0, 1), Pt(1, 0))
    /\ out.args[1].offset # R(0)
    /\ out.val = TRUE

\* C5: invert gives theta' = (theta + 180) mod 360 and offset' = -offset,
\* and inverting the result again gives a line approx and same as the first.
C5_Invert ==
    out.op = "invert" =>
        LET src == out.args[1]
        IN  /\ l1.theta = (src.theta + 180) % 360
            /\ l1.offset = QNeg(src.offset)
            /\ Line_approx(Line_invert(l1), src)
            /\ Line_same(Line_invert(l1), src)

\* An inversion whose theta + 180 wraps past 360.
C5_Witness ==
    /\ out.op = "invert"
    /\ out.args[1].theta = 270
    /\ out.args[1].offset = R(1)
    /\ l1 = Line(90, R(-1))

\* The normals of la and lb are equal or opposite.
NormalsAligned(la, lb) ==
    \/ vec2_dir(la.theta) = vec2_dir(lb.theta)
    \/ vec2_dir(la.theta) = vec2_scale(vec2_dir(lb.theta), R(-1))

\* C6: intersection returns null exactly for parallel, anti-parallel and
\* coincident lines, and otherwise a point with finite coordinates.
C6_IntersectionNull ==
    out.op = "intersection" =>
        LET la == out.args[1]
            lb == out.args[2]
        IN  /\ (out.val = null) <=> ((la.theta - lb.theta) % 180 = 0)
            /\ SameLocus(la, lb) => out.val = null
            /\ out.val # null =>
                /\ Len(out.val) = 2
                /\ IsFinite(out.val[1])
                /\ IsFinite(out.val[2])

\* intersection was asked of two anti-parallel lines.
C6_Witness ==
    /\ out.op = "intersection"
    /\ out.args[1].theta = 90
    /\ out.args[2].theta = 270
    /\ out.val = null

\* C7: the point intersection returns lies on both lines;
\* fromPoints([0,0],[1,0]) and fromPoints([1,0],[1,1]) meet at [1,0].
C7_IntersectionPoint ==
    (out.op = "intersection" /\ out.val # null) =>
        LET la == out.args[1]
            lb == out.args[2]
        IN  /\ OnLine(la, out.val)
            /\ OnLine(lb, out.val)
            /\ Line_distance(la, out.val) = R(0)
            /\ Line_distance(lb, out.val) = R(0)
            /\ (la = Line_fromPoints(Pt(0, 0), Pt(1, 0))
                  /\ lb = Line_fromPoints(Pt(1, 0), Pt(1, 1))) => out.val = Pt(1, 0)

C7_Witness ==
    /\ out.op = "intersection"
    /\ out.args[1] = Line_fromPoints(Pt(0, 0), Pt(1, 0))
    /\ out.args[2] = Line_fromPoints(Pt(1, 0), Pt(1, 1))
    /\ out.val = Pt(1, 0)

\* C8: closest(l, p) is p - t * normal with t = dot(p, normal) - offset and
\* lies on l; distance(l, p) = |t| is non-negative and its square is the
\* squared Euclidean distance of p and closest(l, p).
C8_ClosestDistance ==
    /\ out.op = "closest" =>
        LET l == out.args[1]
            p == out.args[2]
            n == vec2_dir(l.theta)
            t == QSub(vec2_dot(p, n), l.offset)
        IN  /\ out.val = vec2_sub(p, vec2_scale(n, t))
            /\ Line_distance(l, out.val) = R(0)
            /\ QMul(Line_distance(l, p), Line_distance(l, p)) = vec2_sqrDist(p, out.val)
            /\ Cross(vec2_sub(p, out.val), n) = R(0)
            /\ (l = Line_fromPoints(Pt(0, 0), Pt(1, 0)) /\ p = Pt(1, 1)) => out.val = Pt(1, 0)
    /\ out.op = "distance" =>
        LET l == out.args[1]
            p == out.args[2]
            n == vec2_dir(l.theta)
            t == QSub(vec2_dot(p, n), l.offset)
        IN  /\ QSign(out.val) >= 0
            /\ out.val = QAbs(t)
            /\ QMul(out.val, out.val) = vec2_sqrDist(p, Line_closest(l, p))
            /\ (l = Line_fromPoints(Pt(0, 0), Pt(1, 0)) /\ p = Pt(0, 1)) => out.val = R(1)

\* closest was asked of a point off a diagonal line off the origin.
C8_Witness ==
    /\ out.op = "closest"
    /\ out.args[1] = Line_fromPoints(Pt(1, 0), Pt(0, 1))
    /\ out.args[2] = Pt(1, 1)
    /\ out.val = <<Frac(1, 2), Frac(1, 2)>>

\* C9: isParallel is true exactly of the lines whose normals are equal or
\* opposite; a line is parallel to its inversion.
C9_IsParallel ==
    /\ out.op = "isParallel" =>
        (out.val <=> NormalsAligned(out.args[1], out.args[2]))
    /\ out.op = "invert" => Line_isParallel(out.args[1], l1)

\* isParallel was asked of two lines with opposite normals.
C9_Witness ==
    /\ out.op = "isParallel"
    /\ out.args[1].theta = 225
    /\ out.args[2].theta = 45
    /\ out.val = TRUE

\* C10: isPerpendicular is true exactly of the lines whose normals are
\* orthogonal, which is when |theta1 mod 180 - theta2 mod 180| = 90.
C10_IsPerpendicular ==
    out.op = "isPerpendicular" =>
        LET la == out.args[1]
            lb == out.args[2]
        IN  /\ out.val <=> (vec2_dot(vec2_dir(la.theta), vec2_dir(lb.theta)) = R(0))
            /\ out.val <=> (IAbs((la.theta % 180) - (lb.theta % 180)) = 90)
            /\ (la = Line_fromPoints(Pt(0, 0), Pt(1, 1))
                  /\ lb = Line_fromPoints(Pt(0, 0), Pt(1, -1))) => out.val = TRUE

\* isPerpendicular was asked of thetas in opposite half-turns.
C10_Witness ==
    /\ out.op = "isPerpendicular"
    /\ out.args[1].theta = 270
    /\ out.args[2].theta = 0
    /\ out.val = TRUE

\* Four points of the line l: the foot of its normal and points along it.
PointsOn(l) ==
    LET w1 == vec2_scale(vec2_dir(l.theta), l.offset)
    IN  {vec2_dir3(l.theta - 90, R(k), w1) : k \in -1 .. 2}

\* C11: reflectionMatrix(l) is [1-2a^2, -2ab, -2ab, 1-2b^2, 2ca, 2cb] and
\* maps every point of l to itself; for x = 1 it is [-1,0,0,1,2,0] and for
\* y = -1 it is [1,0,0,-1,0,-2].
C11_ReflectionFixesLine ==
    out.op = "reflectionMatrix" =>
        LET l == out.args[1]
            a == vec2_dir(l.theta)[1]
            b == vec2_dir(l.theta)[2]
            c == l.offset
        IN  /\ out.val = <<QSub(R(1), QMul(R(2), QMul(a, a))),
                           QNeg(QMul(R(2), QMul(a, b))),
                           QNeg(QMul(R(2), QMul(a, b))),
                           QSub(R(1), QMul(R(2), QMul(b, b))),
                           QMul(R(2), QMul(c, a)),
                           QMul(R(2), QMul(c, b))>>
            /\ \A q \in PointsOn(l) : vec2_transformMat2d(q, out.val) = q
            /\ \A q \in Points : OnLine(l, q) => vec2_transformMat2d(q, out.val) = q
            /\ l = Line_fromPoints(Pt(1, 0), Pt(1, 1)) =>
                out.val = <<R(-1), R(0), R(0), R(1), R(2), R(0)>>
            /\ l = Line_fromPoints(Pt(0, -1), Pt(1, -1)) =>
                out.val = <<R(1), R(0), R(0), R(-1), R(0), R(-2)>>

\* The reflection across the line x = 1.
C11_Witness ==
    /\ out.op = "reflectionMatrix"
    /\ out.args[1] = Line_fromPoints(Pt(1, 0), Pt(1, 1))
    /\ out.val = <<R(-1), R(0), R(0), R(1), R(2), R(0)>>

\* C12: transform(l, M) is fromPoints(M*w1, M*w2) for w1 = offset * normal
\* and w2 = w1 + dir(theta - 90); M maps every point of l onto the result;
\* transform(l, identity) is approx l; transform(fromPoints([0,0],[1,1]),
\* scaling([-1,1])) is Line.of(225, 0).
C12_Transform ==
    out.op = "transform" =>
        LET l == out.args[1]
            M == out.args[2]
            w1 == vec2_scale(vec2_dir(l.theta), l.offset)
            w2 == vec2_add(w1, vec2_dir(l.theta - 90))
        IN  /\ l1 = Line_fromPoints(vec2_transformMat2d(w1, M), vec2_transformMat2d(w2, M))
            /\ \A q \in PointsOn(l) : OnLine(l1, vec2_transformMat2d(q, M))
            /\ \A q \in Points : OnLine(l, q) => OnLine(l1, vec2_transformMat2d(q, M))
            /\ M = mat2d_identity => Line_approx(l1, l)
            /\ (l = Line_fromPoints(Pt(0, 0), Pt(1, 1)) /\ M = mat2d_flipX) =>
                l1 = Line_of(225, R(0))

\* A diagonal line off the origin was rotated by 90 degrees.
C12_Witness ==
    /\ out.op = "transform"
    /\ out.args[1] = Line_fromPoints(Pt(1, 0), Pt(0, 1))
    /\ out.args[2] = mat2d_rotate90
    /\ l1 = Line(315, <<0, -1, 2>>)

\* mat2d.invert(m) for m = [a, b, c, d, tx, ty].
mat2d_invert(m) ==
    LET det == QSub(QMul(m[1], m[4]), QMul(m[2], m[3]))
    IN  <<QDiv(m[4], det),
          QDiv(QNeg(m[2]), det),
          QDiv(QNeg(m[3]), det),
          QDiv(m[1], det),
          QDiv(QSub(QMul(m[3], m[6]), QMul(m[4], m[5])), det),
          QDiv(QSub(QMul(m[2], m[5]), QMul(m[1], m[6])), det)>>

\* C13: transforming the result of transform(l, M) by the inverse of M
\* gives a line same as l.
C13_TransformRoundTrip ==
    out.op = "transform" =>
        Line_same(Line_transform(l1, mat2d_invert(out.args[2])), out.args[1])

\* A line off the origin went through the non-uniform scale.
C13_Witness ==
    /\ out.op = "transform"
    /\ out.args[1] = Line(0, R(1))
    /\ out.args[2] = mat2d_scaleX
    /\ l1 = Line(0, R(2))
    /\ Line_transform(l1, mat2d_invert(mat2d_scaleX)) = Line(0, R(1))

\* p lies on the segment sg, between its two endpoints.
OnSegment(sg, p) ==
    LET d == vec2_sub(sg[2], sg[1])
        u == vec2_dot(vec2_sub(p, sg[1]), d)
    IN  /\ Cross(d, vec2_sub(p, sg[1])) = R(0)
        /\ QLe(R(0), u)
        /\ QLe(u, vec2_dot(d, d))

\* C14: Segment.intersection returns a point only if it lies within both
\* segments, and null whenever Line.intersection of the two lines is null.
C14_IntersectionWithinBoth ==
    out.op = "Segment.intersection" =>
        LET s1 == out.args[1]
            s2 == out.args[2]
            q == Line_intersection(Line_fromPoints(s1[1], s1[2]),
                                   Line_fromPoints(s2[1], s2[2]))
        IN  /\ out.val # null => (OnSegment(s1, out.val) /\ OnSegment(s2, out.val))
            /\ (q # null /\ ~(OnSegment(s1, q) /\ OnSegment(s2, q))) => out.val = null
            /\ q = null => out.val = null

\* C15 as claimed: the point q is accepted iff dist(q, s1[0]) <= dist(q, s2[1])
\* and dist(q, s2[0]) <= dist(q, s1[1]).
C15_OtherSegmentEndpoints ==
    out.op = "Segment.intersection" =>
        LET s1 == out.args[1]
            s2 == out.args[2]
            q == Line_intersection(Line_fromPoints(s1[1], s1[2]),
                                   Line_fromPoints(s2[1], s2[2]))
        IN  (out.val # null) <=>
                /\ q # null
                /\ vec2_distLe(q, s1[1], s2[2])
                /\ vec2_distLe(q, s2[1], s1[2])

\* C15 as amended: the point q is accepted iff, for each segment, q is no
\* farther from that segment's first endpoint than from its own second
\* endpoint; an accepted q is returned unchanged.
C15_OwnSegmentEndpoints ==
    out.op = "Segment.intersection" =>
        LET s1 == out.args[1]
            s2 == out.args[2]
            q == Line_intersection(Line_fromPoints(s1[1], s1[2]),
                                   Line_fromPoints(s2[1], s2[2]))
        IN  /\ (out.val # null) <=>
                /\ q # null
                /\ vec2_distLe(q, s1[1], s1[2])
                /\ vec2_distLe(q, s2[1], s2[2])
            /\ out.val # null => out.val = q

\* A crossing point accepted although it is farther from s1's first endpoint
\* than from the second endpoint of s2.
C15_Witness ==
    /\ out.op = "Segment.intersection"
    /\ out.val # null
    /\ ~vec2_distLe(out.val, out.args[1][1], out.args[2][2])

\* C19: Segment.midpoint returns (a + b) / 2, equidistant from a and b and
\* on the segment.
C19_Midpoint ==
    out.op = "Segment.midpoint" =>
        LET a == out.args[1][1]
            b == out.args[1][2]
        IN  /\ out.val = vec2_scale(vec2_add(a, b), Frac(1, 2))
            /\ vec2_sqrDist(out.val, a) = vec2_sqrDist(out.val, b)
            /\ OnSegment(out.args[1], out.val)

\* The point of the segment sg nearest to c: a + u * (b - a) with
\* u = dot(c - a, b - a) / dot(b - a, b - a) clamped to [0, 1].
NearestOnSegment(sg, c) ==
    LET a == sg[1]
        d == vec2_sub(sg[2], sg[1])
        dd == vec2_dot(d, d)
        u == QDiv(vec2_dot(vec2_sub(c, a), d), dd)
    IN  IF dd = R(0) THEN a
        ELSE vec2_add(a, vec2_scale(d, QMax(R(0), QMin(R(1), u))))

\* C20: Segment.closestPoint returns the point of the segment nearest to c
\* (for a degenerate segment, a); Segment.distance is 0 for c on the segment.
C20_ClosestPoint ==
    /\ out.op = "Segment.closestPoint" =>
        /\ OnSegment(out.args[1], out.val)
        /\ out.val = NearestOnSegment(out.args[1], out.args[2])
    /\ (out.op = "Segment.distance" /\ OnSegment(out.args[1], out.args[2])) =>
        out.val = R(0)

\* C16: every Rect produced by a constructor followed by any sequence of
\* scale, translate, offset, unite, intersect and lerp has min.x <= max.x
\* and min.y <= max.y.
C16_RectInvariant ==
    out.op \in RectOps =>
        /\ QLe(out.val[1][1], out.val[2][1])
        /\ QLe(out.val[1][2], out.val[2][2])

\* C17: every Range produced by Range.of followed by any sequence of
\* Range.offset and Range.scale has min <= max.
C17_RangeInvariant ==
    out.op \in RangeOps => QLe(out.val[1], out.val[2])

\* C18: for a non-negative size, Rect.fromCenter(center, size) has the
\* given center and the given size.
C18_FromCenter ==
    (/\ out.op = "Rect.fromCenter"
     /\ QLe(R(0), out.args[2][1])
     /\ QLe(R(0), out.args[2][2])) =>
        /\ Rect_center(out.val) = out.args[1]
        /\ Rect_size(out.val) = out.args[2]

\* C21: normalizeAngle(deg) is the unique r with -180 < r <= 180 congruent to
\* deg modulo 360 (360 -> 0, -180 -> 180, -90 -> -90, 450 -> 90), and it is
\* idempotent.
C21_NormalizeAngle ==
    out.op = "normalizeAngle" =>
        LET deg == out.args[1]
        IN  /\ -180 < out.val /\ out.val <= 180
            /\ (out.val - deg) % 360 = 0
            /\ \A r \in -179 .. 180 : (r - deg) % 360 = 0 => r = out.val
            /\ normalizeAngle(out.val) = out.val
            /\ deg \in -179 .. 180 => out.val = deg
            /\ deg = 360 => out.val = 0
            /\ deg = -180 => out.val = 180
            /\ deg = -90 => out.val = -90
            /\ deg = 450 => out.val = 90

\* The half turn the other way round is normalized to 180.
C21_Witness ==
    /\ out.op = "normalizeAngle"
    /\ out.args = <<-180>>
    /\ out.val = 180

\* Twice the signed area of the triangle a, b, c.
TwiceArea(a, b, c) == Cross(vec2_sub(b, a), vec2_sub(c, a))

\* The circle passes through a, b and c, and its radius is not negative.
Circumscribed(circle, a, b, c) ==
    /\ QLe(R(0), circle.radius)
    /\ QMul(circle.radius, circle.radius) = vec2_sqrDist(circle.center, a)
    /\ vec2_sqrDist(circle.center, b) = vec2_sqrDist(circle.center, a)
    /\ vec2_sqrDist(circle.center, c) = vec2_sqrDist(circle.center, a)

C23_ParallelIffNoIntersection ==
    /\ out.op = "isParallel" =>
        (out.val <=> Line_intersection_ticks(out.args[1], out.args[2]) = null)
    /\ out.op = "intersection" =>
        ((out.val = null) <=> Line_isParallel_ticks(out.args[1], out.args[2]))

\* mat2d.multiply(m, n): the map that applies n and then m.
mat2d_multiply(m, n) ==
    <<QAdd(QMul(m[1], n[1]), QMul(m[3], n[2])),
      QAdd(QMul(m[2], n[1]), QMul(m[4], n[2])),
      QAdd(QMul(m[1], n[3]), QMul(m[3], n[4])),
      QAdd(QMul(m[2], n[3]), QMul(m[4], n[4])),
      QAdd(QAdd(QMul(m[1], n[5]), QMul(m[3], n[6])), m[5]),
      QAdd(QAdd(QMul(m[2], n[5]), QMul(m[4], n[6])), m[6])>>

\* C24: reflectionMatrix(invert(l)) equals reflectionMatrix(l), and the
\* matrix composed with itself is the identity: a point reflected twice is
\* the point itself.
C24_ReflectionInvolution ==
    out.op = "reflectionMatrix" =>
        /\ Line_reflectionMatrix(Line_invert(out.args[1])) = out.val
        /\ mat2d_multiply(out.val, out.val) = mat2d_identity
        /\ \A p \in Points :
            vec2_transformMat2d(vec2_transformMat2d(p, out.val), out.val) = p

\* The reflection across the diagonal line at distance 1 from the origin,
\* the same for the line and for its inverse.
C24_Witness ==
    /\ out.op = "reflectionMatrix"
    /\ out.args[1] = Line(45, R(1))
    /\ out.val = <<R(0), R(-1), R(-1), R(0), <<0, 1, 1>>, <<0, 1, 1>>>>
    /\ Line_reflectionMatrix(Line(225, R(-1))) = out.val

\* min <= max on both axes.
IsValidRect(rect) ==
    /\ QLe(rect[1][1], rect[2][1])
    /\ QLe(rect[1][2], rect[2][2])

\* C25: for valid rects a, b and points p, containsPoint(intersect(a, b), p)
\* iff containsPoint(a, p) and containsPoint(b, p); intersects(a, b) iff
\* intersect(a, b) has min <= max on both axes; unite(a, b) contains a and b.
C25_SetOperations ==
    /\ out.op = "Rect.intersect" =>
        /\ \A p \in Points :
            Rect_containsPoint(out.val, p) <=>
                (Rect_containsPoint(out.args[1], p) /\ Rect_containsPoint(out.args[2], p))
        /\ Rect_intersects(out.args[1], out.args[2]) <=> IsValidRect(out.val)
    /\ out.op = "Rect.intersects" =>
        (out.val <=> IsValidRect(Rect_intersect(<<out.args[1], out.args[2]>>)))
    /\ out.op = "Rect.unite" =>
        /\ Rect_contains(out.val, out.args[1])
        /\ Rect_contains(out.val, out.args[2])
    /\ out.op = "Rect.contains" =>
        (out.val <=> \A p \in Points :
            Rect_containsPoint(out.args[2], p) => Rect_containsPoint(out.args[1], p))
    /\ out.op = "Rect.containsPoint" =>
        (out.val <=> Rect_unite(<<out.args[1], <<out.args[2], out.args[2]>>>>) = out.args[1])

\* Two rects that share only the corner (0, 0) intersect, in that point.
C25_Witness ==
    /\ out.op = "Rect.intersects"
    /\ out.args = <<<<Pt(-1, -1), Pt(0, 0)>>, <<Pt(0, 0), Pt(1, 1)>>>>
    /\ out.val = TRUE
    /\ Rect_intersect(<<out.args[1], out.args[2]>>) = <<Pt(0, 0), Pt(0, 0)>>

====
